---------------------------- MODULE Spec2Model ----------------------------
(***************************************************************************)
(* BlackRoom analytics: the reconstruction of a wagering event's history   *)
(* from its bet ledger, as computed by                                     *)
(*   - getEventAnalytics / generateOptimizedHistoricalData                 *)
(*     (minute-bucketed full history, analyticsService.ts 85-237),         *)
(*   - getEventAnalytics / generateRealHistoricalData                      *)
(*     (hour-bucketed rolling window, analyticsService.ts 600-951),        *)
(*   - the get_event_analytics edge function (get_event_analytics.ts),     *)
(* by smoothDataPoints called on its own (specification SpecSmooth), the   *)
(* statistics that subscribeToEventUpdates hands to a subscriber on every  *)
(* change notification (specification SpecLive), the minute variant on a   *)
(* store that already holds a ledger (specification SpecStored), and the   *)
(* real-time effects of the components LiveAnalyticsGraph and              *)
(* MobileLiveAnalytics (specification SpecView).                           *)
(*                                                                         *)
(* Time is counted in seconds since the epoch (the code counts             *)
(* milliseconds; no bet of the model falls between two seconds).  A        *)
(* JavaScript number is modelled in fixed point, as a whole count of       *)
(* thousandths.  All ledger rows have status 'active'.  Hours of the day   *)
(* are read in UTC.                                                        *)
(***************************************************************************)
EXTENDS Integers, Sequences, FiniteSets, TLC

VARIABLES
    event,          \* the row of table events for TheEvent
    bet_options,    \* the rows of table bet_options of TheEvent, in creation order
    bets,           \* the rows of table bets of TheEvent, in insertion order
    pc,             \* where the one invocation in flight stands
    loc,            \* its local variables
    response        \* what the last invocation handed to its caller

vars == <<event, bet_options, bets, pc, loc, response>>

----------------------------------------------------------------------------
(* Bounds of the model *)

MaxBets == 2

TheEvent == "e1"
EventIds == {"e1", "e0"}        \* "e0" matches no row of events
NoParam == "null"               \* url.searchParams.get('event_id') of a URL without one
OptionLists == { <<>>, <<"A", "B", "C">> }
BetOptions == {"A", "B"}        \* the options that receive bets
Amounts == {0, 1, 3}
BetTimes == {3590, 82830}       \* seconds; 3590 is more than 24 h before both Nows
Nows == {90000, 90030}
Seeds == {0, 1}

----------------------------------------------------------------------------
(* JavaScript numbers in fixed point *)

Abs(x) == IF x < 0 THEN -x ELSE x

\* A number is a whole count of units of 1 / Precision; a product or a quotient
\* is rounded to the nearest unit (a double rounds every result too, to 53
\* bits).
Precision == 10 * 10 * 10

\* n / d to the nearest whole number, for d > 0
roundDiv(n, d) == (n \div d) + ((2 * (n % d) + d) \div (2 * d))

\* the number n / d of two whole numbers, d > 0
Rat(n, d) == (n \div d) * Precision + roundDiv((n % d) * Precision, d)

\* the number of a whole number
R(i) == i * Precision

\* NaN: a value that no arithmetic of the model produces
NaN == -(Precision * Precision * Precision)
RIsNaN(a) == a = NaN

RAdd(a, b) == a + b
RNeg(a) == -a
RSub(a, b) == a - b
RMul(a, b) == (a \div Precision) * b + roundDiv((a % Precision) * b, Precision)

\* a / b for b # 0
RDiv(a, b) ==
    LET n == IF b < 0 THEN 0 - a ELSE a
        d == Abs(b)
    IN  (n \div d) * Precision + roundDiv((n % d) * Precision, d)

\* x / y * 100 for y # 0, the product taken first: the quotient is rounded once
RShare(x, y) == RDiv(RMul(R(100), x), y)

RLt(a, b) == a < b
RGt(a, b) == RLt(b, a)
RAbs(a) == Abs(a)
RMin(a, b) == IF RLt(b, a) THEN b ELSE a
RMax(a, b) == IF RGt(b, a) THEN b ELSE a
RFloor(a) == a \div Precision

\* +(x).toFixed(2) for x >= 0: the nearest multiple of 0.01, a tie going up;
\* NaN.toFixed(2) is "NaN"
toFixed2(a) ==
    IF RIsNaN(a) THEN NaN
    ELSE roundDiv(a, Precision \div 100) * (Precision \div 100)

RECURSIVE SumSeq(_)
SumSeq(s) == IF s = <<>> THEN 0 ELSE Head(s) + SumSeq(Tail(s))

\* the sum of s[lo..hi], halving the range
RECURSIVE RSumRange(_, _, _)
RSumRange(s, lo, hi) ==
    IF lo > hi THEN R(0)
    ELSE IF lo = hi THEN s[lo]
    ELSE RAdd(RSumRange(s, lo, (lo + hi) \div 2),
              RSumRange(s, (lo + hi) \div 2 + 1, hi))

RSumSeq(s) == RSumRange(s, 1, Len(s))

RECURSIVE SetToSeq(_)
SetToSeq(S) ==
    IF S = {} THEN <<>>
    ELSE LET x == CHOOSE y \in S : TRUE IN <<x>> \o SetToSeq(S \ {x})

\* Object.values(o).reduce((sum, val) => sum + val, 0) of an object of integers
SumValues(f) == SumSeq([i \in 1..Cardinality(DOMAIN f) |-> f[SetToSeq(DOMAIN f)[i]]])

\* the same of an object of numbers
RSumValues(f) == RSumSeq([i \in 1..Cardinality(DOMAIN f) |-> f[SetToSeq(DOMAIN f)[i]]])

Range(s) == {s[i] : i \in DOMAIN s}

\* an object without keys
NoKeys == <<>>

----------------------------------------------------------------------------
(* The external store, as the queries of the code read it *)

\* the data of .single() when no row matches or the read fails: null
NoRow == [id |-> "null", total_pool |-> 0, participant_count |-> 0]

\* the errors the store client reports
NoRowsError == "PGRST116: no rows returned"
FetchError == "fetch failed"

RECURSIVE InsertByPlacedAt(_, _)
InsertByPlacedAt(s, b) ==
    IF s = <<>> THEN <<b>>
    ELSE IF b.placed_at < Head(s).placed_at THEN <<b>> \o s
    ELSE <<Head(s)>> \o InsertByPlacedAt(Tail(s), b)

\* .order('placed_at', { ascending: true })
RECURSIVE orderByPlacedAt(_)
orderByPlacedAt(s) ==
    IF s = <<>> THEN <<>>
    ELSE InsertByPlacedAt(orderByPlacedAt(SubSeq(s, 1, Len(s) - 1)), s[Len(s)])

\* from('bets').select(...).eq('event_id', eventId).order('placed_at')
selectBets(eventId) == IF eventId = event.id THEN orderByPlacedAt(bets) ELSE <<>>

\* from('bet_options').select(...).eq('event_id', eventId).order(...): the labels
\* of the model's options are in creation order, so both orders agree
selectOptions(eventId) == IF eventId = event.id THEN bet_options ELSE <<>>

\* from('events').select(...).eq('id', eventId).single()
selectEvent(eventId) == IF eventId = event.id THEN event ELSE NoRow
selectEventError(eventId, fail) ==
    IF fail THEN FetchError
    ELSE IF eventId # event.id THEN NoRowsError
    ELSE ""

----------------------------------------------------------------------------
(* Shared pieces of the three variants *)

optionIds(options) == {options[i].id : i \in DOMAIN options}

\* reduce((prev, current) => val(current) > val(prev) ? current : prev) over a
\* list, by index: the first index whose value is the greatest
RECURSIVE reduceGreater(_, _, _)
reduceGreater(vals, best, i) ==
    IF i > Len(vals) THEN best
    ELSE reduceGreater(vals, IF RGt(vals[i], vals[best]) THEN i ELSE best, i + 1)

\* point.percentages[id] || 0
percentageOr0(point, id) ==
    IF id \in DOMAIN point.percentages /\ ~RIsNaN(point.percentages[id])
    THEN point.percentages[id] ELSE R(0)

\* point.momentum?.[id] || 0
momentumOr0(point, id) ==
    IF "momentum" \in DOMAIN point /\ id \in DOMAIN point.momentum
    THEN point.momentum[id] ELSE R(0)

\* new Date(t).getHours()
getHours(t) == (t \div (60 * 60)) % 24

\* getOptionColor(index), index counted from 0
getOptionColor(index) ==
    <<"#16a34a", "#dc2626", "#facc15", "#3b82f6",
      "#8b5cf6", "#06B6D4", "#F97316", "#84CC16">>[(index % 8) + 1]

OPTION_COLORS(index) ==
    <<"#3B82F6", "#EF4444", "#10B981", "#F59E0B",
      "#8B5CF6", "#06B6D4", "#F97316", "#84CC16">>[(index % 8) + 1]

optionColors(index) ==
    <<"#16a34a", "#dc2626", "#facc15", "#3b82f6", "#8b5cf6">>[(index % 5) + 1]

----------------------------------------------------------------------------
(* Minute buckets: the time map of generateOptimizedHistoricalData and of   *)
(* the edge function                                                        *)

\* new Date(placed_at).toISOString().slice(0, 16): the minute of the bet
timeKey(placed_at) == placed_at \div 60

\* time + ':00': the first second of the minute
timestampOfKey(time) == time * 60

\* a time map that takes a key for every bet
timeMapKeysPerBet(bs) == [i \in DOMAIN bs |-> timeKey(bs[i].placed_at)]

\* Object.keys(timeMap): each minute once, in the order of its first bet
RECURSIVE timeMapKeys(_)
timeMapKeys(bs) ==
    IF bs = <<>> THEN <<>>
    ELSE LET ks == timeMapKeys(SubSeq(bs, 1, Len(bs) - 1))
             k == timeKey(bs[Len(bs)].placed_at)
         IN  IF k \in Range(ks) THEN ks ELSE Append(ks, k)

RECURSIVE InsertKey(_, _)
InsertKey(s, k) ==
    IF s = <<>> THEN <<k>>
    ELSE IF k < Head(s) THEN <<k>> \o s
    ELSE <<Head(s)>> \o InsertKey(Tail(s), k)

\* Array.prototype.sort() of keys of one fixed-width format
RECURSIVE sortKeys(_)
sortKeys(s) ==
    IF s = <<>> THEN <<>>
    ELSE InsertKey(sortKeys(SubSeq(s, 1, Len(s) - 1)), s[Len(s)])

timeBuckets(bs) == sortKeys(timeMapKeys(bs))

\* timeMap[time]: the amount each option received in that minute
poolPerOption(bs, time) ==
    LET in == SelectSeq(bs, LAMBDA b : timeKey(b.placed_at) = time)
    IN  [o \in {in[i].option_id : i \in DOMAIN in} |->
            SumSeq([i \in DOMAIN in |->
                IF in[i].option_id = o THEN in[i].amount ELSE 0])]

----------------------------------------------------------------------------
(* generateOptimizedHistoricalData: one pass of its loop over timeBuckets *)

\* cumulativeData after the totals of one bucket were added to it
addToCumulative(cumulativeData, pool) ==
    [o \in DOMAIN cumulativeData \cup DOMAIN pool |->
        (IF o \in DOMAIN cumulativeData THEN cumulativeData[o] ELSE 0)
      + (IF o \in DOMAIN pool THEN pool[o] ELSE 0)]

\* +(cumulativeData[optionId] / total * 100).toFixed(2), or 0 for an empty total
cumulativeShare(amount, total) ==
    IF total > 0 THEN toFixed2(RShare(R(amount), R(total))) ELSE R(0)

\* the percentages of one bucket: every option of cumulativeData, then 0 for
\* every option of optionsData not among them
optimizedPercentages(cumulativeData, optionsData) ==
    LET total == SumValues(cumulativeData)
    IN  [o \in DOMAIN cumulativeData \cup optionIds(optionsData) |->
            IF o \in DOMAIN cumulativeData
            THEN cumulativeShare(cumulativeData[o], total)
            ELSE R(0)]

\* the DataPoint pushed for bucket `time`; currentEvent is the row just read
\* (NoRow when the read gave none)
optimizedPoint(time, cumulativeData, optionsData, currentEvent) ==
    LET total == SumValues(cumulativeData)
    IN  [timestamp |-> timestampOfKey(time),
         percentages |-> optimizedPercentages(cumulativeData, optionsData),
         totalPool |-> R(IF currentEvent.total_pool # 0
                         THEN currentEvent.total_pool ELSE total),
         participantCount |-> currentEvent.participant_count,
         totalBets |-> cumulativeData,
         velocity |-> 0]

\* every DataPoint pushed so far holds the one cumulativeData object
shareCumulative(historicalData, cumulativeData) ==
    [i \in DOMAIN historicalData |->
        [historicalData[i] EXCEPT !.totalBets = cumulativeData]]

----------------------------------------------------------------------------
(* calculateEnhancedInsights *)

leadingIndex(options) ==
    reduceGreater([i \in DOMAIN options |-> R(options[i].total_bets)], 1, 1)

\* the changes of the leading option's percentage between consecutive points
leadingChanges(historicalData, id) ==
    [i \in 1..(Len(historicalData) - 1) |->
        RAbs(RSub(percentageOr0(historicalData[i + 1], id),
                  percentageOr0(historicalData[i], id)))]

avgChange(historicalData, id) ==
    RDiv(RSumSeq(leadingChanges(historicalData, id)), R(Len(historicalData) - 1))

enhancedVolatilityScore(historicalData, id) ==
    IF Len(historicalData) > 1
    THEN RMin(R(100), RMul(avgChange(historicalData, id), R(10)))
    ELSE R(0)

enhancedVolatility(historicalData, id) ==
    IF Len(historicalData) > 1
    THEN IF RGt(avgChange(historicalData, id), R(10)) THEN "High"
         ELSE IF RGt(avgChange(historicalData, id), R(5)) THEN "Medium"
         ELSE "Low"
    ELSE "Low"

enhancedTrend(historicalData, id) ==
    IF Len(historicalData) > 2
    THEN LET n == Len(historicalData)
             change == RSub(percentageOr0(historicalData[n], id),
                            percentageOr0(historicalData[n - 2], id))
         IN  IF RGt(change, R(2)) THEN "Rising"
             ELSE IF RLt(change, R(-2)) THEN "Falling"
             ELSE "Stable"
    ELSE "Stable"

\* hourlyBets after the loop over bets, hour h at index h + 1
hourlyBets(bs) ==
    [h1 \in 1..24 |->
        Cardinality({i \in DOMAIN bs : getHours(bs[i].placed_at) = h1 - 1})]

RECURSIVE MaxOf(_)
MaxOf(s) ==
    IF Len(s) = 1 THEN s[1]
    ELSE LET m == MaxOf(Tail(s)) IN IF s[1] > m THEN s[1] ELSE m

\* hourlyBets.indexOf(Math.max(...hourlyBets))
enhancedPeakHour(bs) ==
    LET hb == hourlyBets(bs)
    IN  (CHOOSE i \in 1..24 :
            /\ hb[i] = MaxOf(hb)
            /\ \A j \in 1..(i - 1) : hb[j] # MaxOf(hb)) - 1

enhancedAverageVelocity(historicalData) ==
    IF Len(historicalData) > 0
    THEN Rat(SumSeq([i \in DOMAIN historicalData |-> historicalData[i].velocity]),
             Len(historicalData))
    ELSE R(0)

\* options.reduce over latestData?.percentages[id] || 0
enhancedTrendingIndex(options, historicalData) ==
    reduceGreater(
        [i \in DOMAIN options |->
            IF historicalData = <<>> THEN R(0)
            ELSE percentageOr0(historicalData[Len(historicalData)], options[i].id)],
        1, 1)

\* the loop from the last point backwards: <<timestamp>> of the first change of
\* more than 5 it meets, <<>> (undefined) when it meets none
RECURSIVE enhancedLastMajorShift(_, _, _)
enhancedLastMajorShift(historicalData, id, i) ==
    IF i <= 1 THEN <<>>
    ELSE IF RGt(RAbs(RSub(percentageOr0(historicalData[i], id),
                          percentageOr0(historicalData[i - 1], id))), R(5))
         THEN <<historicalData[i].timestamp>>
         ELSE enhancedLastMajorShift(historicalData, id, i - 1)

calculateEnhancedInsights(options, historicalData, bs) ==
    IF Len(options) = 0
    THEN [leadingOption |-> "No options available",
          volatility |-> "Low",
          trend |-> "Stable",
          peakBettingHour |-> 0,
          averageVelocity |-> R(0),
          totalBettingVelocity |-> R(0),
          volatilityScore |-> R(0),
          trendingOption |-> "No options available",
          lastMajorShift |-> <<>>]
    ELSE LET leadingOption == options[leadingIndex(options)]
         IN  [leadingOption |-> leadingOption.label,
              volatility |-> enhancedVolatility(historicalData, leadingOption.id),
              trend |-> enhancedTrend(historicalData, leadingOption.id),
              peakBettingHour |-> enhancedPeakHour(bs),
              averageVelocity |-> enhancedAverageVelocity(historicalData),
              totalBettingVelocity |-> enhancedAverageVelocity(historicalData),
              volatilityScore |->
                  enhancedVolatilityScore(historicalData, leadingOption.id),
              trendingOption |->
                  options[enhancedTrendingIndex(options, historicalData)].label,
              lastMajorShift |->
                  enhancedLastMajorShift(historicalData, leadingOption.id,
                                         Len(historicalData))]

\* what getEventAnalytics (minute variant) returns once the history is built
minuteBody(ev, optionsData, historicalData, bs) ==
    LET totalPool == ev.total_pool
    IN  [event |-> ev,
         options |-> [i \in DOMAIN optionsData |->
                        [id |-> optionsData[i].id,
                         label |-> optionsData[i].label,
                         total_bets |-> optionsData[i].total_bets,
                         bettors |-> optionsData[i].bettors,
                         color |-> getOptionColor(i - 1)]],
         currentPercentages |->
            [o \in optionIds(optionsData) |->
                LET opt == CHOOSE x \in Range(optionsData) : x.id = o
                IN  IF totalPool > 0
                    THEN RShare(R(opt.total_bets), R(totalPool))
                    ELSE R(0)],
         historicalData |-> historicalData,
         totalPool |-> totalPool,
         insights |-> calculateEnhancedInsights(optionsData, historicalData, bs)]

----------------------------------------------------------------------------
(* generateRealHistoricalData: the 24 hourly points of the rolling window *)

totalHours == 24

\* point j of 1..totalHours is the pass i = totalHours - j of the loop
hourStart(now, j) == now - ((totalHours - j) + 1) * (60 * 60)
hourEnd(now, j) == now - (totalHours - j) * (60 * 60)

betsUpToThisHour(allBets, now, j) ==
    SelectSeq(allBets, LAMBDA bet : bet.placed_at <= hourEnd(now, j))

betsInThisHour(allBets, now, j) ==
    SelectSeq(allBets, LAMBDA bet :
        bet.placed_at > hourStart(now, j) /\ bet.placed_at <= hourEnd(now, j))

\* optionTotals[id] || 0 over a list of bets
optionTotal(bs, id) ==
    SumSeq([i \in DOMAIN bs |-> IF bs[i].option_id = id THEN bs[i].amount ELSE 0])

totalAmount(bs) == SumSeq([i \in DOMAIN bs |-> bs[i].amount])

equalShare(options) == Rat(100, Len(options))

realPercentages(allBets, options, now, j) ==
    LET upTo == betsUpToThisHour(allBets, now, j)
    IN  [o \in optionIds(options) |->
            IF Len(upTo) = 0 THEN equalShare(options)
            ELSE IF totalAmount(upTo) > 0
                 THEN RShare(R(optionTotal(upTo, o)), R(totalAmount(upTo)))
                 ELSE equalShare(options)]

\* the change from the point pushed before; 0 for the first point pushed and
\* for every point before the first bet
realMomentum(allBets, options, now, j) ==
    [o \in optionIds(options) |->
        IF Len(betsUpToThisHour(allBets, now, j)) = 0 \/ j = 1 THEN R(0)
        ELSE RSub(realPercentages(allBets, options, now, j)[o],
                  realPercentages(allBets, options, now, j - 1)[o])]

realPoint(allBets, options, now, j) ==
    LET upTo == betsUpToThisHour(allBets, now, j)
    IN  [timestamp |-> hourEnd(now, j),
         percentages |-> realPercentages(allBets, options, now, j),
         totalPool |-> IF Len(upTo) = 0 THEN R(0) ELSE R(totalAmount(upTo)),
         bettingVelocity |->
            IF Len(upTo) = 0 THEN 0 ELSE Len(betsInThisHour(allBets, now, j)),
         momentum |-> realMomentum(allBets, options, now, j)]

\* a window that emits only its first hour, its last hour and the hours with bets
realDataPointsOfBets(allBets, options, now) ==
    SelectSeq([j \in 1..totalHours |-> realPoint(allBets, options, now, j)],
              LAMBDA p : \/ p.bettingVelocity > 0
                         \/ p.timestamp = hourEnd(now, 1)
                         \/ p.timestamp = hourEnd(now, totalHours))

\* dataPoints before smoothing
realDataPoints(allBets, options, now) ==
    [j \in 1..totalHours |-> realPoint(allBets, options, now, j)]

\* generateEmptyHistoricalData
generateEmptyHistoricalData(options, now) ==
    [j \in 1..24 |->
        [timestamp |-> now - (24 - j) * (60 * 60),
         percentages |-> [o \in optionIds(options) |-> equalShare(options)],
         totalPool |-> R(0),
         bettingVelocity |-> 0,
         momentum |-> [o \in optionIds(options) |-> R(0)]]]

\* equal weights for the neighbours and half for the point itself
weightedQuarter(prevVal, currentVal, nextVal) ==
    RAdd(RAdd(RMul(prevVal, Rat(1, 4)), RMul(currentVal, Rat(1, 2))),
         RMul(nextVal, Rat(1, 4)))

\* prev * 0.2 + current * 0.6 + next * 0.2
weighted(prevVal, currentVal, nextVal) ==
    RAdd(RAdd(RMul(prevVal, Rat(2, 10)), RMul(currentVal, Rat(6, 10))),
         RMul(nextVal, Rat(2, 10)))

\* a smoothing of every point, an end point standing in for its missing neighbour
smoothPointClamped(dataPoints, i) ==
    LET before == IF i = 1 THEN 1 ELSE i - 1
        after == IF i = Len(dataPoints) THEN i ELSE i + 1
    IN  [timestamp |-> dataPoints[i].timestamp,
         percentages |->
            [o \in DOMAIN dataPoints[i].percentages |->
                weighted(percentageOr0(dataPoints[before], o),
                         percentageOr0(dataPoints[i], o),
                         percentageOr0(dataPoints[after], o))],
         totalPool |-> dataPoints[i].totalPool,
         bettingVelocity |-> dataPoints[i].bettingVelocity,
         momentum |->
            [o \in DOMAIN dataPoints[i].percentages |->
                weighted(momentumOr0(dataPoints[before], o),
                         momentumOr0(dataPoints[i], o),
                         momentumOr0(dataPoints[after], o))]]

smoothPoint(dataPoints, i) ==
    IF i = 1 \/ i = Len(dataPoints) THEN dataPoints[i]
    ELSE [timestamp |-> dataPoints[i].timestamp,
          percentages |->
            [o \in DOMAIN dataPoints[i].percentages |->
                weighted(percentageOr0(dataPoints[i - 1], o),
                         percentageOr0(dataPoints[i], o),
                         percentageOr0(dataPoints[i + 1], o))],
          totalPool |-> dataPoints[i].totalPool,
          bettingVelocity |-> dataPoints[i].bettingVelocity,
          momentum |->
            [o \in DOMAIN dataPoints[i].percentages |->
                weighted(momentumOr0(dataPoints[i - 1], o),
                         momentumOr0(dataPoints[i], o),
                         momentumOr0(dataPoints[i + 1], o))]]

smoothDataPoints(dataPoints) ==
    IF Len(dataPoints) < 3 THEN dataPoints
    ELSE [i \in DOMAIN dataPoints |-> smoothPoint(dataPoints, i)]

----------------------------------------------------------------------------
(* generateFallbackHistoricalData: the simulated history *)

\* Math.random(): the draws of one invocation are those of a generator whose
\* state the code does not set; draw k (from 0) of the generator seeded `seed`
random(seed, k) == <<Rat(1, 2), Rat(1, 10), Rat(9, 10)>>[((seed + k) % 3) + 1]

\* Math.sin(x / 6) to two decimal places, x = 0..27
sinSixth(x) ==
    Rat(<<0, 17, 33, 48, 62, 74, 84, 92, 97, 100, 100, 97, 91, 83, 72, 60,
          46, 30, 14, -3, -19, -35, -50, -64, -76, -85, -93, -98>>[x + 1], 100)

fallbackCurrentPercentages(options) ==
    LET totalBets == SumSeq([i \in DOMAIN options |-> options[i].totalBets])
    IN  [o \in optionIds(options) |->
            IF totalBets > 0
            THEN RShare(R((CHOOSE x \in Range(options) : x.id = o).totalBets),
                        R(totalBets))
            ELSE equalShare(options)]

\* Math.min(i / 12, 1)
variationFactor(i) == RMin(Rat(i, 12), R(1))

\* (Math.random() - 0.5) * 20 * variationFactor, for option `index` (from 0) of pass i
baseVariation(seed, n, i, index) ==
    RMul(RMul(RSub(random(seed, (23 - i) * (n + 2) + index), Rat(1, 2)), R(20)),
         variationFactor(i))

timePattern(i, index) ==
    RMul(RMul(sinSixth(i + index * 2), R(10)), variationFactor(i))

\* the percentage of one option in pass i before the pass is normalised
historicalPerc(options, seed, i, index) ==
    RMax(R(5), RMin(R(85),
        RAdd(RAdd(fallbackCurrentPercentages(options)[options[index + 1].id],
                  baseVariation(seed, Len(options), i, index)),
             timePattern(i, index))))

fallbackPoint(options, now, seed, i) ==
    LET n == Len(options)
        raw == [x \in 1..n |-> historicalPerc(options, seed, i, x - 1)]
        total == RSumSeq(raw)
        totalBets == SumSeq([x \in DOMAIN options |-> options[x].totalBets])
        growthFactor == RAdd(Rat(3, 10), RMul(Rat(7, 10), Rat(23 - i, 23)))
        randomVariation ==
            RAdd(Rat(8, 10), RMul(random(seed, (23 - i) * (n + 2) + n), Rat(4, 10)))
        estimatedPool ==
            RMul(RMul(RMul(R(totalBets), R(50)), growthFactor), randomVariation)
    IN  [timestamp |-> now - i * (60 * 60),
         percentages |->
            [o \in optionIds(options) |->
                LET x == CHOOSE y \in 1..n : options[y].id = o
                IN  RShare(raw[x], total)],
         totalPool |-> RMax(R(0), estimatedPool),
         bettingVelocity |->
            RFloor(RMul(random(seed, (23 - i) * (n + 2) + n + 1), R(5))) + 1,
         momentum |->
            [o \in optionIds(options) |->
                LET x == CHOOSE y \in 1..n : options[y].id = o
                IN  baseVariation(seed, n, i, x - 1)]]

generateFallbackHistoricalData(options, now, seed) ==
    [j \in 1..24 |-> fallbackPoint(options, now, seed, 24 - j)]

\* generateRealHistoricalData once the ledger query has answered
generateRealHistoricalData(allBets, error, options, now, seed) ==
    IF error THEN generateFallbackHistoricalData(options, now, seed)
    ELSE IF Len(allBets) = 0 THEN generateEmptyHistoricalData(options, now)
    ELSE smoothDataPoints(realDataPoints(allBets, options, now))

----------------------------------------------------------------------------
(* generateEventInsights *)

\* hourlyVolume: the betting velocity summed per hour of the day
hourlyVolume(historicalData) ==
    [h \in {getHours(historicalData[i].timestamp) : i \in DOMAIN historicalData} |->
        SumSeq([i \in DOMAIN historicalData |->
            IF getHours(historicalData[i].timestamp) = h
            THEN historicalData[i].bettingVelocity ELSE 0])]

\* Object.entries(hourlyVolume).reduce(...) from { hour: 0, volume: 0 }: the
\* entries of integer keys come in ascending order
RECURSIVE peakReduce(_, _, _, _)
peakReduce(volume, h, peakHour, peakVolume) ==
    IF h > 23 THEN peakHour
    ELSE IF h \in DOMAIN volume /\ volume[h] > peakVolume
         THEN peakReduce(volume, h + 1, h, volume[h])
         ELSE peakReduce(volume, h + 1, peakHour, peakVolume)

totalBettingVelocity(historicalData) ==
    Rat(SumSeq([i \in DOMAIN historicalData |-> historicalData[i].bettingVelocity]),
        Len(historicalData))

trendingIndex(options, historicalData) ==
    reduceGreater(
        [i \in DOMAIN options |->
            momentumOr0(historicalData[Len(historicalData)], options[i].id)],
        1, 1)

\* the mean change of one option's percentage between consecutive points
meanChange(historicalData, id) ==
    RDiv(RSumSeq(leadingChanges(historicalData, id)), R(Len(historicalData) - 1))

volatilityScore(options, historicalData) ==
    RDiv(RSumSeq([i \in DOMAIN options |-> meanChange(historicalData, options[i].id)]),
         R(Len(options)))

RECURSIVE lastMajorShift(_, _, _)
lastMajorShift(options, historicalData, i) ==
    IF i < 2 THEN <<>>
    ELSE IF \E x \in DOMAIN options :
                RGt(RAbs(RSub(percentageOr0(historicalData[i], options[x].id),
                              percentageOr0(historicalData[i - 1], options[x].id))),
                    R(10))
         THEN <<historicalData[i].timestamp>>
         ELSE lastMajorShift(options, historicalData, i - 1)

generateEventInsights(historicalData, options) ==
    [peakBettingHour |-> peakReduce(hourlyVolume(historicalData), 0, 0, 0),
     totalBettingVelocity |-> totalBettingVelocity(historicalData),
     trendingOption |-> options[trendingIndex(options, historicalData)].label,
     volatilityScore |-> volatilityScore(options, historicalData),
     lastMajorShift |-> lastMajorShift(options, historicalData, Len(historicalData))]

\* options.map(... color, totalBets: Number(option.total_bets))
optionsWithColors(options) ==
    [i \in DOMAIN options |->
        [id |-> options[i].id,
         label |-> options[i].label,
         total_bets |-> options[i].total_bets,
         bettors |-> options[i].bettors,
         color |-> OPTION_COLORS(i - 1),
         totalBets |-> options[i].total_bets]]

\* what getEventAnalytics (hour variant) returns
hourBody(eventId, ev, options, historicalData) ==
    [eventId |-> eventId,
     options |-> options,
     totalPool |-> ev.total_pool,
     participantCount |-> ev.participant_count,
     historicalData |-> historicalData,
     insights |-> generateEventInsights(historicalData, options)]

----------------------------------------------------------------------------
(* The get_event_analytics edge function *)

\* +(poolPerOption[optionId] / total * 100).toFixed(2); 0 / 0 is NaN
edgeShare(amount, total) ==
    IF total = 0 THEN NaN ELSE toFixed2(RShare(R(amount), R(total)))

edgePoint(bs, time, eventMeta) ==
    LET pool == poolPerOption(bs, time)
        total == SumValues(pool)
    IN  [timestamp |-> timestampOfKey(time),
         percentages |-> [o \in DOMAIN pool |-> edgeShare(pool[o], total)],
         totalPool |-> R(eventMeta.total_pool),
         participantCount |-> eventMeta.participant_count]

edgeHistoricalData(bs, eventMeta) ==
    [k \in DOMAIN timeBuckets(bs) |-> edgePoint(bs, timeBuckets(bs)[k], eventMeta)]

edgeOptions(optionsData) ==
    [i \in DOMAIN optionsData |->
        [id |-> optionsData[i].id,
         label |-> optionsData[i].label,
         color |-> optionColors(i - 1)]]

----------------------------------------------------------------------------
(* State: the store, and one invocation at a time of one of the three entry *)
(* points.  An invocation advances from one store query to the next; the    *)
(* store may change between two queries.                                    *)

LocIdle ==
    [variant |-> "none", eventId |-> "", bets |-> <<>>, event |-> NoRow,
     optionsData |-> <<>>, k |-> 0, cumulativeData |-> NoKeys,
     historicalData |-> <<>>, eventReads |-> 0, epochStart |-> 0]

NoTrace ==
    [eventReads |-> 0, epochStart |-> 0, epochEnd |-> 0, now |-> 0,
     ledgerFailed |-> FALSE, ledger |-> <<>>, optionsRead |-> <<>>]

NoResponse ==
    [variant |-> "none", eventId |-> "", outcome |-> "none", error |-> <<>>,
     body |-> <<>>, trace |-> NoTrace]

\* what the invocation did, kept beside what it handed back: the number of reads
\* of table events, the number of bets in the store when it started and when it
\* ended, the clock it read, whether its ledger query failed, and the rows read
traceOf(l, now, ledgerFailed) ==
    [eventReads |-> l.eventReads, epochStart |-> l.epochStart,
     epochEnd |-> Len(bets), now |-> now, ledgerFailed |-> ledgerFailed,
     ledger |-> l.bets, optionsRead |-> l.optionsData]

Thrown(l, error, ledgerFailed) ==
    [variant |-> l.variant, eventId |-> l.eventId, outcome |-> "thrown",
     error |-> error, body |-> <<>>, trace |-> traceOf(l, 0, ledgerFailed)]

Returned(l, body, now, ledgerFailed) ==
    [variant |-> l.variant, eventId |-> l.eventId, outcome |-> "returned",
     error |-> <<>>, body |-> body, trace |-> traceOf(l, now, ledgerFailed)]

Init ==
    /\ event = [id |-> TheEvent, total_pool |-> 0, participant_count |-> 0]
    /\ bet_options \in
          { [i \in DOMAIN ol |->
                [id |-> ol[i], label |-> ol[i], total_bets |-> 0, bettors |-> 0]]
            : ol \in OptionLists }
    /\ bets = <<>>
    /\ pc = "idle"
    /\ loc = LocIdle
    /\ response = NoResponse

\* A bet is inserted: the store adds it to the ledger and to the totals of its
\* option and of the event.  No query of an invocation that has returned sees
\* a later write, so the writes that follow a return are taken after the next
\* call has started.
PlaceBet(o, amount, placed_at) ==
    /\ Len(bets) < MaxBets
    /\ pc # "done"
    /\ o \in optionIds(bet_options)
    /\ bets' = Append(bets, [option_id |-> o, amount |-> amount, placed_at |-> placed_at])
    /\ bet_options' =
          [i \in DOMAIN bet_options |->
              IF bet_options[i].id = o
              THEN [bet_options[i] EXCEPT !.total_bets = @ + amount, !.bettors = @ + 1]
              ELSE bet_options[i]]
    /\ event' = [event EXCEPT !.total_pool = @ + amount, !.participant_count = @ + 1]
    /\ UNCHANGED <<pc, loc, response>>

firstStep(variant) ==
    CASE variant = "minute" -> "minute_bets"
      [] variant = "hour" -> "hour_event"
      [] variant = "edge" -> "edge_bets"

\* A caller invokes getEventAnalytics (variant "minute" or "hour") or requests
\* the edge function (variant "edge"); the edge function answers 400 at once
\* when the URL has no event_id.
Call(variant, eventId) ==
    /\ pc \in {"idle", "done"}
    /\ eventId = NoParam => variant = "edge"
    /\ LET l == [LocIdle EXCEPT !.variant = variant, !.eventId = eventId,
                                !.epochStart = Len(bets)]
       IN  IF eventId = NoParam
           THEN /\ response' = Returned(l, [status |-> 400, error |-> "Missing event_id"],
                                        0, FALSE)
                /\ pc' = "done"
                /\ loc' = LocIdle
           ELSE /\ response' = NoResponse
                /\ pc' = firstStep(variant)
                /\ loc' = l
    /\ UNCHANGED <<event, bet_options, bets>>

\* the invocation ends, handing `r` to its caller
Finish(r) ==
    /\ response' = r
    /\ pc' = "done"
    /\ loc' = LocIdle

----------------------------------------------------------------------------
(* getEventAnalytics, minute variant *)

\* if (betsError) throw ...; if (eventError) throw ...; if (optionsError) throw ...
minuteBetsThrows(betsError) == betsError # ""
\* a throw on a failed query only
eventThrowsOnFetchError(eventError) == eventError = FetchError
minuteEventThrows(eventError) == eventError # ""
minuteOptionsThrows(optionsError) == optionsError # ""

MinuteReadBets(fail) ==
    /\ pc = "minute_bets"
    /\ IF minuteBetsThrows(IF fail THEN FetchError ELSE "")
       THEN Finish(Thrown(loc, <<"Bets error: ", FetchError>>, TRUE))
       ELSE /\ loc' = [loc EXCEPT !.bets = selectBets(loc.eventId)]
            /\ pc' = "minute_event"
            /\ UNCHANGED response
    /\ UNCHANGED <<event, bet_options, bets>>

MinuteReadEvent(fail) ==
    /\ pc = "minute_event"
    /\ LET l == [loc EXCEPT !.eventReads = @ + 1]
           eventError == selectEventError(loc.eventId, fail)
       IN  IF minuteEventThrows(eventError)
           THEN Finish(Thrown(l, <<"Event not found: ", eventError>>, FALSE))
           ELSE /\ loc' = [l EXCEPT !.event = selectEvent(loc.eventId)]
                /\ pc' = "minute_options"
                /\ UNCHANGED response
    /\ UNCHANGED <<event, bet_options, bets>>

\* the options arrive and generateOptimizedHistoricalData groups the bets; with
\* no bucket to walk, getEventAnalytics returns
MinuteReadOptions(fail) ==
    /\ pc = "minute_options"
    /\ IF minuteOptionsThrows(IF fail THEN FetchError ELSE "")
       THEN Finish(Thrown(loc, <<"Options error: ", FetchError>>, FALSE))
       ELSE LET l == [loc EXCEPT !.optionsData = selectOptions(loc.eventId)]
            IN  IF timeBuckets(loc.bets) = <<>>
                THEN Finish(Returned(l, minuteBody(l.event, l.optionsData, <<>>, l.bets),
                                     0, FALSE))
                ELSE /\ loc' = [l EXCEPT !.k = 1]
                     /\ pc' = "minute_loop"
                     /\ UNCHANGED response
    /\ UNCHANGED <<event, bet_options, bets>>

\* one pass of the loop over timeBuckets, with its read of the event's totals;
\* after the last pass getEventAnalytics computes the insights and returns
MinuteBucket(fail) ==
    /\ pc = "minute_loop"
    /\ LET time == timeBuckets(loc.bets)[loc.k]
           cumulativeData ==
               addToCumulative(loc.cumulativeData, poolPerOption(loc.bets, time))
           currentEvent == IF fail THEN NoRow ELSE selectEvent(loc.eventId)
           historicalData ==
               Append(shareCumulative(loc.historicalData, cumulativeData),
                      optimizedPoint(time, cumulativeData, loc.optionsData, currentEvent))
           l == [loc EXCEPT !.cumulativeData = cumulativeData,
                            !.historicalData = historicalData,
                            !.eventReads = @ + 1,
                            !.k = @ + 1]
       IN  IF loc.k = Len(timeBuckets(loc.bets))
           THEN Finish(Returned(l, minuteBody(l.event, l.optionsData, historicalData, l.bets),
                                0, FALSE))
           ELSE /\ loc' = l
                /\ pc' = "minute_loop"
                /\ UNCHANGED response
    /\ UNCHANGED <<event, bet_options, bets>>

----------------------------------------------------------------------------
(* getEventAnalytics, hour variant *)

\* if (eventError) throw eventError
hourEventThrows(eventError) == eventError # ""

\* if (!options || options.length === 0) throw ...
hourOptionsMissing(options) == Len(options) = 0

HourReadEvent(fail) ==
    /\ pc = "hour_event"
    /\ LET l == [loc EXCEPT !.eventReads = @ + 1]
           eventError == selectEventError(loc.eventId, fail)
       IN  IF hourEventThrows(eventError)
           THEN Finish(Thrown(l, <<eventError>>, FALSE))
           ELSE /\ loc' = [l EXCEPT !.event = selectEvent(loc.eventId)]
                /\ pc' = "hour_options"
                /\ UNCHANGED response
    /\ UNCHANGED <<event, bet_options, bets>>

HourReadOptions(fail) ==
    /\ pc = "hour_options"
    /\ IF fail
       THEN Finish(Thrown(loc, <<FetchError>>, FALSE))
       ELSE IF hourOptionsMissing(selectOptions(loc.eventId))
       THEN Finish(Thrown(loc, <<"No betting options found for this event">>, FALSE))
       ELSE /\ loc' = [loc EXCEPT
                          !.optionsData = optionsWithColors(selectOptions(loc.eventId))]
            /\ pc' = "hour_bets"
            /\ UNCHANGED response
    /\ UNCHANGED <<event, bet_options, bets>>

\* generateRealHistoricalData queries the ledger and reads the clock; the
\* history, the insights and the return follow without another query
HourReadBets(fail, now, seed) ==
    /\ pc = "hour_bets"
    /\ LET allBets == IF fail THEN <<>> ELSE selectBets(loc.eventId)
           l == [loc EXCEPT !.bets = allBets]
           historicalData ==
               generateRealHistoricalData(allBets, fail, loc.optionsData, now, seed)
       IN  Finish(Returned(l, hourBody(loc.eventId, loc.event, loc.optionsData,
                                       historicalData), now, fail))
    /\ UNCHANGED <<event, bet_options, bets>>

----------------------------------------------------------------------------
(* The edge function's handler *)

EdgeReadBets(fail) ==
    /\ pc = "edge_bets"
    /\ IF fail
       THEN Finish(Returned(loc, [status |-> 500, error |-> FetchError], 0, TRUE))
       ELSE /\ loc' = [loc EXCEPT !.bets = selectBets(loc.eventId)]
            /\ pc' = "edge_meta"
            /\ UNCHANGED response
    /\ UNCHANGED <<event, bet_options, bets>>

\* eventMeta is null when the read fails or finds no row
EdgeReadMeta(fail) ==
    /\ pc = "edge_meta"
    /\ loc' = [loc EXCEPT !.event = IF fail THEN NoRow ELSE selectEvent(loc.eventId),
                          !.eventReads = @ + 1,
                          !.historicalData =
                              edgeHistoricalData(loc.bets,
                                  IF fail THEN NoRow ELSE selectEvent(loc.eventId))]
    /\ pc' = "edge_options"
    /\ UNCHANGED <<event, bet_options, bets, response>>

\* optionsData is null when the read fails: options is then []
EdgeReadOptions(fail) ==
    /\ pc = "edge_options"
    /\ LET l == [loc EXCEPT !.optionsData =
                     IF fail THEN <<>> ELSE selectOptions(loc.eventId)]
       IN  Finish(Returned(l, [status |-> 200,
                               historicalData |-> loc.historicalData,
                               options |-> edgeOptions(l.optionsData)], 0, FALSE))
    /\ UNCHANGED <<event, bet_options, bets>>

----------------------------------------------------------------------------

Next ==
    \/ \E o \in BetOptions, amount \in Amounts, placed_at \in BetTimes :
          PlaceBet(o, amount, placed_at)
    \/ \E variant \in {"minute", "hour", "edge"}, eventId \in EventIds \cup {NoParam} :
          Call(variant, eventId)
    \/ \E fail \in BOOLEAN : MinuteReadBets(fail)
    \/ \E fail \in BOOLEAN : MinuteReadEvent(fail)
    \/ \E fail \in BOOLEAN : MinuteReadOptions(fail)
    \/ \E fail \in BOOLEAN : MinuteBucket(fail)
    \/ \E fail \in BOOLEAN : HourReadEvent(fail)
    \/ \E fail \in BOOLEAN : HourReadOptions(fail)
    \/ \E fail \in BOOLEAN, now \in Nows :
          \E seed \in (IF fail THEN Seeds ELSE {0}) : HourReadBets(fail, now, seed)
    \/ \E fail \in BOOLEAN : EdgeReadBets(fail)
    \/ \E fail \in BOOLEAN : EdgeReadMeta(fail)
    \/ \E fail \in BOOLEAN : EdgeReadOptions(fail)

Spec == Init /\ [][Next]_vars

----------------------------------------------------------------------------
(* smoothDataPoints on its own: a call with a series of any length up to     *)
(* MaxSeries.  getEventAnalytics only ever passes it the 24 points of the    *)
(* window; the shorter series are those of a direct call.                    *)

MaxSeries == 4

\* the DataPoints a series is made of, before they are stamped
SamplePoints ==
    { [percentages |-> [A |-> R(50), B |-> R(50)],
       totalPool |-> R(0), bettingVelocity |-> 0,
       momentum |-> [A |-> R(0), B |-> R(0)]],
      [percentages |-> [A |-> R(100), B |-> R(0)],
       totalPool |-> R(1), bettingVelocity |-> 1,
       momentum |-> [A |-> R(50), B |-> R(-50)]],
      [percentages |-> [A |-> R(25), B |-> R(75)],
       totalPool |-> R(4), bettingVelocity |-> 2,
       momentum |-> [A |-> R(-75), B |-> R(75)]] }

\* the series of n DataPoints, an hour apart
SeriesOf(n) ==
    { [i \in 1..n |->
          [timestamp |-> i * (60 * 60),
           percentages |-> f[i].percentages,
           totalPool |-> f[i].totalPool,
           bettingVelocity |-> f[i].bettingVelocity,
           momentum |-> f[i].momentum]]
      : f \in [1..n -> SamplePoints] }

SmoothInputs == UNION { SeriesOf(n) : n \in 0..MaxSeries }

\* smoothDataPoints is about to be called with the series loc.historicalData
SmoothInit ==
    /\ event = [id |-> TheEvent, total_pool |-> 0, participant_count |-> 0]
    /\ bet_options = <<>>
    /\ bets = <<>>
    /\ pc = "smooth"
    /\ loc \in { [LocIdle EXCEPT !.variant = "smooth", !.historicalData = s]
                 : s \in SmoothInputs }
    /\ response = NoResponse

\* the call returns; loc keeps the argument beside the result
SmoothCall ==
    /\ pc = "smooth"
    /\ response' = Returned(loc, [historicalData |->
                                    smoothDataPoints(loc.historicalData)], 0, FALSE)
    /\ pc' = "smoothed"
    /\ UNCHANGED <<event, bet_options, bets, loc>>

SmoothNext == SmoothCall

SpecSmooth == SmoothInit /\ [][SmoothNext]_vars

----------------------------------------------------------------------------
(* subscribeToEventUpdates and getRealTimeBettingStats, in the two versions  *)
(* of analyticsService.ts: "live1" (lines 240-308 and 437-500) and "live2"   *)
(* (lines 1088-1111, 1210-1267 and 1272-1328).  A change notification of the *)
(* store starts the handler, which reads the store query by query and hands  *)
(* the statistics to the subscriber's callback; the store may change between *)
(* two queries.  In this specification `response` is what the callback was   *)
(* last called with.                                                         *)

LiveVariants == {"live1", "live2"}

\* the tables whose changes a subscription listens to
liveTables(variant) ==
    IF variant = "live1" THEN {"bets", "bet_options", "events"}
    ELSE {"bets", "bet_options"}

\* the payloads of a notification: the row the change is said to have written
Payloads ==
    { [eventType |-> "INSERT", new |-> [total_pool |-> 0]],
      [eventType |-> "UPDATE", new |-> [total_pool |-> 999]] }

\* the clocks a handler reads; 82830 is a bet time of the hour of 82900
LiveNows == {82900, 90000}

\* the local variables of a handler started by a notification
LiveLoc(variant, table, payload) ==
    [variant |-> variant, eventId |-> TheEvent, bets |-> <<>>, event |-> NoRow,
     optionsData |-> <<>>, k |-> 0, cumulativeData |-> NoKeys,
     historicalData |-> <<>>, eventReads |-> 0, epochStart |-> Len(bets),
     table |-> table, payload |-> payload]

\* .gte('placed_at', new Date(Date.now() - 60 * 60 * 1000).toISOString())
recentBets(now) ==
    SelectSeq(bets, LAMBDA bet : bet.placed_at >= now - 60 * 60)

\* getRealTimeBettingStats of lines 240-308, its three queries answered
live1Stats(ev, options, recent, now) ==
    LET totalPool == ev.total_pool
    IN  [timestamp |-> now,
         percentages |->
            [o \in optionIds(options) |->
                LET option == CHOOSE x \in Range(options) : x.id = o
                IN  IF totalPool > 0
                    THEN toFixed2(RShare(R(option.total_bets), R(totalPool)))
                    ELSE R(0)],
         totalPool |-> totalPool,
         participantCount |-> ev.participant_count,
         bettingVelocity |-> Len(recent),
         momentum |->
            [o \in optionIds(options) |->
                LET option == CHOOSE x \in Range(options) : x.id = o
                    recentAmount == optionTotal(recent, o)
                IN  IF recentAmount > 0
                    THEN RShare(R(recentAmount),
                                R(IF option.total_bets # 0
                                  THEN option.total_bets ELSE 1))
                    ELSE R(0)],
         options |->
            [i \in DOMAIN options |->
                [id |-> options[i].id,
                 label |-> options[i].label,
                 total_bets |-> options[i].total_bets,
                 bettors |-> options[i].bettors,
                 color |-> getOptionColor(i - 1)]]]

\* getBettingVelocity: the bets of the last 24 hours counted per hour, read at
\* the key of the current hour; {} when the query fails
velocityBets(now) ==
    SelectSeq(bets, LAMBDA bet : bet.placed_at >= now - 24 * (60 * 60))

currentHourVelocity(bs, now) ==
    Cardinality({i \in DOMAIN bs :
                    bs[i].placed_at \div (60 * 60) = now \div (60 * 60)})

\* getRealTimeBettingStats of lines 1210-1267
live2Stats(optionStats, ev, bs, now) ==
    LET totalBets == SumSeq([i \in DOMAIN optionStats |-> optionStats[i].total_bets])
    IN  [percentages |->
            [o \in optionIds(optionStats) |->
                LET option == CHOOSE x \in Range(optionStats) : x.id = o
                IN  IF totalBets > 0
                    THEN RShare(R(option.total_bets), R(totalBets))
                    ELSE equalShare(optionStats)],
         totalPool |-> ev.total_pool,
         totalBets |-> totalBets,
         participantCount |-> ev.participant_count,
         timestamp |-> now,
         bettingVelocity |-> currentHourVelocity(bs, now)]

\* a handler whose subscriber reads the total of the notified row
subscriberDataOfPayload(payload, freshData) ==
    [freshData EXCEPT !.totalPool = payload.new.total_pool]

\* callback(freshData) / onUpdate(stats): what the handler of a notification
\* with `payload` calls the subscriber with
subscriberData(payload, freshData) == freshData

\* the callback is called with `stats`; kept beside it are the rows the handler
\* read, the clock it read and the notification that started it
LiveDeliver(l, stats, now) ==
    /\ response' =
          [variant |-> l.variant, eventId |-> l.eventId, outcome |-> "returned",
           error |-> <<>>, body |-> subscriberData(l.payload, stats),
           trace |-> [eventReads |-> l.eventReads, epochStart |-> l.epochStart,
                      epochEnd |-> Len(bets), now |-> now, ledgerFailed |-> FALSE,
                      ledger |-> l.bets, optionsRead |-> l.optionsData,
                      eventRead |-> l.event, table |-> l.table,
                      payload |-> l.payload]]
    /\ pc' = "idle"
    /\ loc' = LocIdle

\* catch (error) { console.error(...) }: the callback is not called
LiveCaught ==
    /\ pc' = "idle"
    /\ loc' = LocIdle
    /\ UNCHANGED response

\* a change of `table` is notified to the subscription of TheEvent; a
\* subscriber has subscribed with one version of subscribeToEventUpdates, so
\* every notification it is called for is handled by that version
Notify(variant, table, payload) ==
    /\ pc = "idle"
    /\ bets # <<>>
    /\ response.variant \in {"none", variant}
    /\ table \in liveTables(variant)
    /\ pc' = IF variant = "live1" THEN "live1_event" ELSE "live2_options"
    /\ loc' = LiveLoc(variant, table, payload)
    /\ UNCHANGED <<event, bet_options, bets, response>>

Live1ReadEvent(fail) ==
    /\ pc = "live1_event"
    /\ IF selectEventError(loc.eventId, fail) # ""
       THEN LiveCaught
       ELSE /\ loc' = [loc EXCEPT !.event = selectEvent(loc.eventId),
                                  !.eventReads = @ + 1]
            /\ pc' = "live1_options"
            /\ UNCHANGED response
    /\ UNCHANGED <<event, bet_options, bets>>

Live1ReadOptions(fail) ==
    /\ pc = "live1_options"
    /\ IF fail
       THEN LiveCaught
       ELSE /\ loc' = [loc EXCEPT !.optionsData = selectOptions(loc.eventId)]
            /\ pc' = "live1_recent"
            /\ UNCHANGED response
    /\ UNCHANGED <<event, bet_options, bets>>

\* the clock read is no earlier than that of the handler before
Live1ReadRecent(fail, now) ==
    /\ pc = "live1_recent"
    /\ now >= response.trace.now
    /\ IF fail
       THEN LiveCaught
       ELSE LET l == [loc EXCEPT !.bets = recentBets(now)]
            IN  LiveDeliver(l, live1Stats(l.event, l.optionsData, l.bets, now), now)
    /\ UNCHANGED <<event, bet_options, bets>>

Live2ReadOptions(fail) ==
    /\ pc = "live2_options"
    /\ IF fail
       THEN LiveCaught
       ELSE /\ loc' = [loc EXCEPT !.optionsData = selectOptions(loc.eventId)]
            /\ pc' = "live2_event"
            /\ UNCHANGED response
    /\ UNCHANGED <<event, bet_options, bets>>

\* the error of this read is not looked at: event is null when it fails
Live2ReadEvent(fail) ==
    /\ pc = "live2_event"
    /\ loc' = [loc EXCEPT !.event = IF fail THEN NoRow ELSE selectEvent(loc.eventId),
                          !.eventReads = @ + 1]
    /\ pc' = "live2_velocity"
    /\ UNCHANGED <<event, bet_options, bets, response>>

Live2ReadVelocity(fail, now) ==
    /\ pc = "live2_velocity"
    /\ now >= response.trace.now
    /\ LET l == [loc EXCEPT !.bets = IF fail THEN <<>> ELSE velocityBets(now)]
       IN  LiveDeliver(l, live2Stats(l.optionsData, l.event, l.bets, now), now)
    /\ UNCHANGED <<event, bet_options, bets>>

LiveNext ==
    \/ \E o \in BetOptions, amount \in Amounts, placed_at \in BetTimes :
          PlaceBet(o, amount, placed_at)
    \/ \E variant \in LiveVariants, table \in {"bets", "bet_options", "events"},
          payload \in Payloads :
          Notify(variant, table, payload)
    \/ \E fail \in BOOLEAN : Live1ReadEvent(fail)
    \/ \E fail \in BOOLEAN : Live1ReadOptions(fail)
    \/ \E fail \in BOOLEAN, now \in LiveNows : Live1ReadRecent(fail, now)
    \/ \E fail \in BOOLEAN : Live2ReadOptions(fail)
    \/ \E fail \in BOOLEAN : Live2ReadEvent(fail)
    \/ \E fail \in BOOLEAN, now \in LiveNows : Live2ReadVelocity(fail, now)

SpecLive == Init /\ [][LiveNext]_vars

----------------------------------------------------------------------------
(* Specification SpecStored: the minute variant of getEventAnalytics called  *)
(* on a store that already holds a ledger of up to MaxStored bets on three   *)
(* options, a writer inserting one more bet while the buckets are walked.    *)

MaxStored == 4

StoredOptions == <<"A", "B", "C">>

StoredAmounts == {1}

\* the ledgers of up to MaxStored bets, each inserted when it was placed
StoredLedgers ==
    UNION { { s \in [1..n -> [option_id : Range(StoredOptions),
                              amount : StoredAmounts,
                              placed_at : BetTimes]] :
                \A k \in 1..(n - 1) : s[k].placed_at <= s[k + 1].placed_at }
            : n \in 0..MaxStored }

\* the store after the bets of some ledger were inserted into an empty one
InitStored ==
    /\ bets \in StoredLedgers
    /\ bet_options =
          [i \in DOMAIN StoredOptions |->
              [id |-> StoredOptions[i], label |-> StoredOptions[i],
               total_bets |-> optionTotal(bets, StoredOptions[i]),
               bettors |-> Len(SelectSeq(bets, LAMBDA bet :
                                             bet.option_id = StoredOptions[i]))]]
    /\ event = [id |-> TheEvent, total_pool |-> totalAmount(bets),
                participant_count |-> Len(bets)]
    /\ pc = "idle"
    /\ loc = LocIdle
    /\ response = NoResponse

\* A concurrent writer inserts a bet of amount 1 while the invocation walks
\* the buckets of the ledger it has read: once per invocation, and at most
\* once beyond the MaxStored bets of a full ledger.
StoredWrite(o, placed_at) ==
    /\ pc = "minute_loop"
    /\ Len(bets) = Len(loc.bets)
    /\ Len(bets) <= MaxStored
    /\ \A k \in DOMAIN bets : bets[k].placed_at <= placed_at
    /\ bets' = Append(bets, [option_id |-> o, amount |-> 1, placed_at |-> placed_at])
    /\ bet_options' =
          [i \in DOMAIN bet_options |->
              IF bet_options[i].id = o
              THEN [bet_options[i] EXCEPT !.total_bets = @ + 1, !.bettors = @ + 1]
              ELSE bet_options[i]]
    /\ event' = [event EXCEPT !.total_pool = @ + 1, !.participant_count = @ + 1]
    /\ UNCHANGED <<pc, loc, response>>

NextStored ==
    \/ \E o \in Range(StoredOptions), placed_at \in BetTimes : StoredWrite(o, placed_at)
    \/ \E eventId \in EventIds : Call("minute", eventId)
    \/ \E fail \in BOOLEAN : MinuteReadBets(fail)
    \/ \E fail \in BOOLEAN : MinuteReadEvent(fail)
    \/ \E fail \in BOOLEAN : MinuteReadOptions(fail)
    \/ \E fail \in BOOLEAN : MinuteBucket(fail)

SpecStored == InitStored /\ [][NextStored]_vars

----------------------------------------------------------------------------

(* Specification SpecView: one mounted component with its real-time effect, *)
(* in the four components of the repository:                                *)
(*   "graph_reload"   LiveAnalyticsGraph reloading the history on every     *)
(*                    notification (src/unnamed/part_000),                  *)
(*   "mobile_reload"  MobileLiveAnalytics doing the same (part_002),        *)
(*   "graph_points"   LiveAnalyticsGraph appending the statistics it is     *)
(*                    handed, with a poll every 30 s (part_001),            *)
(*   "mobile_points"  MobileLiveAnalytics doing the same, with a poll every *)
(*                    45 s (components/mobile/MobileLiveAnalytics.tsx).     *)
(* Every notification and every poll tick starts a task of its own; tasks   *)
(* run concurrently, each from one await to the next.  Here `pc` says       *)
(* whether the effect is set up or cleaned up, `loc` holds the tasks and    *)
(* `response` is the state the component displays.  The component has       *)
(* loaded an event with three options and no bet.                           *)

MaxTasks == 2

Views == {"graph_reload", "mobile_reload", "graph_points", "mobile_points"}

ReloadViews == {"graph_reload", "mobile_reload"}

PointsViews == {"graph_points", "mobile_points"}

\* the hours of DataPoints a component keeps: 24, and 6 on mobile
keptHours(view) == IF view = "mobile_points" THEN 6 ELSE 24

\* cumulativeData after the passes over the first k buckets
RECURSIVE cumulativeUpTo(_, _)
cumulativeUpTo(bs, k) ==
    IF k = 0 THEN NoKeys
    ELSE addToCumulative(cumulativeUpTo(bs, k - 1),
                         poolPerOption(bs, timeBuckets(bs)[k]))

\* the history generateOptimizedHistoricalData builds from ledger bs when
\* every pass reads the row currentEvent
optimizedHistory(bs, optionsData, currentEvent) ==
    shareCumulative(
        [k \in 1..Len(timeBuckets(bs)) |->
            optimizedPoint(timeBuckets(bs)[k], cumulativeUpTo(bs, k),
                           optionsData, currentEvent)],
        cumulativeUpTo(bs, Len(timeBuckets(bs))))

\* a task started by a notification ("push") or by a tick of the poll
\* interval ("poll"), awaiting getRealTimeBettingStats; `after` is the number
\* of failures logged before it started
NewTask(kind, caught) ==
    [kind |-> kind, stage |-> "stats", seq |-> 0, result |-> <<>>,
     after |-> caught]

\* the number of reloads started so far
reloadsStarted(tasks) == Cardinality({i \in DOMAIN tasks : tasks[i].seq > 0})

\* handleRealTimeUpdate(update) at clock now: the new DataPoint is appended,
\* DataPoints older than the kept hours are dropped, totalPool is set
handleRealTimeUpdate(shown, update, now) ==
    LET newDataPoint ==
            [timestamp |-> update.timestamp,
             percentages |-> update.percentages,
             totalPool |-> update.totalPool,
             bettingVelocity |-> update.bettingVelocity,
             momentum |-> NoKeys]
        cutoff == now - keptHours(shown.view) * (60 * 60)
    IN  [shown EXCEPT
            !.dataPoints = SelectSeq(Append(@, newDataPoint),
                                     LAMBDA point : point.timestamp >= cutoff),
            !.totalPool = update.totalPool,
            !.calls = @ + 1]

\* a catch that shows the error to the user
catchAndShow(shown) == [shown EXCEPT !.error = "Failed to load analytics"]

\* catch (error) { console.error(...) }: the state of the component is left
\* alone
catchAndLog(shown) == shown

\* the catch and the finally of loadAnalytics in LiveAnalyticsGraph
catchOfLoadAnalytics(shown) ==
    [shown EXCEPT !.error = "Failed to load analytics", !.isLive = FALSE,
                  !.loading = FALSE]

ViewInit ==
    /\ event = [id |-> TheEvent, total_pool |-> 0, participant_count |-> 0]
    /\ bet_options =
          [i \in DOMAIN StoredOptions |->
              [id |-> StoredOptions[i], label |-> StoredOptions[i],
               total_bets |-> 0, bettors |-> 0]]
    /\ bets = <<>>
    /\ pc = "mounted"
    /\ \E v \in Views :
          /\ loc = [view |-> v, tasks |-> <<>>, caught |-> 0]
          /\ response =
                [view |-> v, dataPoints |-> <<>>, totalPool |-> 0,
                 loading |-> FALSE, error |-> "", isLive |-> TRUE, calls |-> 0]

\* a change of the bets of TheEvent is notified to the subscription: the
\* handler of subscribeToEventUpdates starts
ViewNotify ==
    /\ pc = "mounted"
    /\ Len(loc.tasks) < MaxTasks
    /\ loc' = [loc EXCEPT !.tasks = Append(@, NewTask("push", loc.caught))]
    /\ UNCHANGED <<event, bet_options, bets, pc, response>>

\* the poll interval of a component that appends statistics fires
ViewTick ==
    /\ pc = "mounted"
    /\ loc.view \in PointsViews
    /\ Len(loc.tasks) < MaxTasks
    /\ loc' = [loc EXCEPT !.tasks = Append(@, NewTask("poll", loc.caught))]
    /\ UNCHANGED <<event, bet_options, bets, pc, response>>

\* getRealTimeBettingStats of task i settles.  When it throws, the catch of
\* the handler, or of the poll, logs.  Otherwise a component that appends is
\* handed the statistics; LiveAnalyticsGraph starts loadAnalytics, which
\* sets the loading flag; MobileLiveAnalytics starts its reload.
ViewStats(i, fail, now) ==
    /\ i \in DOMAIN loc.tasks
    /\ loc.tasks[i].stage = "stats"
    /\ \A k \in DOMAIN response.dataPoints : response.dataPoints[k].timestamp <= now
    /\ IF fail
       THEN /\ loc' = [loc EXCEPT !.tasks[i].stage = "caught", !.caught = @ + 1]
            /\ response' = catchAndLog(response)
       ELSE IF loc.view \in PointsViews
       THEN /\ loc' = [loc EXCEPT !.tasks[i].stage = "done"]
            /\ response' =
                  handleRealTimeUpdate(response,
                      live2Stats(selectOptions(TheEvent), selectEvent(TheEvent),
                                 velocityBets(now), now), now)
       ELSE /\ loc' = [loc EXCEPT !.tasks[i].stage = "reload",
                                  !.tasks[i].seq = reloadsStarted(loc.tasks) + 1]
            /\ response' =
                  IF loc.view = "graph_reload"
                  THEN [response EXCEPT !.loading = TRUE, !.error = "",
                                        !.isLive = TRUE, !.calls = @ + 1]
                  ELSE [response EXCEPT !.calls = @ + 1]
    /\ UNCHANGED <<event, bet_options, bets, pc>>

\* getEventAnalytics, awaited by the reload of task i, reads the store; when
\* it throws, LiveAnalyticsGraph shows the error and MobileLiveAnalytics logs
ViewLoad(i, fail) ==
    /\ i \in DOMAIN loc.tasks
    /\ loc.tasks[i].stage = "reload"
    /\ IF fail
       THEN /\ loc' = [loc EXCEPT !.tasks[i].stage = "caught", !.caught = @ + 1]
            /\ response' = IF loc.view = "graph_reload"
                           THEN catchOfLoadAnalytics(response)
                           ELSE catchAndLog(response)
       ELSE /\ loc' = [loc EXCEPT
                          !.tasks[i].stage = "loaded",
                          !.tasks[i].result =
                              optimizedHistory(selectBets(TheEvent),
                                               selectOptions(TheEvent),
                                               selectEvent(TheEvent))]
            /\ UNCHANGED response
    /\ UNCHANGED <<event, bet_options, bets, pc>>

\* the reload of task i goes on after its await: setAnalyticsData, and
\* setIsLoading(false) in LiveAnalyticsGraph, setTotalPool of the latest
\* DataPoint in MobileLiveAnalytics
ViewApply(i) ==
    /\ i \in DOMAIN loc.tasks
    /\ loc.tasks[i].stage = "loaded"
    /\ loc' = [loc EXCEPT !.tasks[i].stage = "done"]
    /\ LET historicalData == loc.tasks[i].result
       IN  response' =
              IF loc.view = "graph_reload"
              THEN [response EXCEPT !.dataPoints = historicalData,
                                    !.isLive = TRUE, !.loading = FALSE]
              ELSE [response EXCEPT
                       !.dataPoints = historicalData,
                       !.isLive = TRUE,
                       !.totalPool =
                           IF Len(historicalData) > 0
                           THEN historicalData[Len(historicalData)].totalPool
                           ELSE @]
    /\ UNCHANGED <<event, bet_options, bets, pc>>

\* the cleanup of the effect, at unmount or when eventId changes: the
\* channels are removed and the interval is cleared
ViewCleanup ==
    /\ pc = "mounted"
    /\ pc' = "cleaned"
    /\ UNCHANGED <<event, bet_options, bets, loc, response>>

ViewNext ==
    \/ \E o \in BetOptions, placed_at \in BetTimes : PlaceBet(o, 1, placed_at)
    \/ ViewNotify
    \/ ViewTick
    \/ \E i \in 1..MaxTasks, fail \in BOOLEAN, now \in LiveNows : ViewStats(i, fail, now)
    \/ \E i \in 1..MaxTasks, fail \in BOOLEAN : ViewLoad(i, fail)
    \/ \E i \in 1..MaxTasks : ViewApply(i)
    \/ ViewCleanup

SpecView == ViewInit /\ [][ViewNext]_vars

----------------------------------------------------------------------------

(* Properties of what getEventAnalytics and the edge function hand back *)

\* the history handed back, empty when none was
History ==
    IF response.outcome = "returned" /\ "historicalData" \in DOMAIN response.body
    THEN response.body.historicalData
    ELSE <<>>

\* the response is that of getEventAnalytics, in one of its two variants
OfService == response.variant \in {"minute", "hour"}

\* the options of the event the call named
EventOptions == optionIds(selectOptions(response.eventId))

\* the rows of the ledger the invocation read that were placed up to and
\* including the bucket of DataPoint p: a minute for the minute variant and the
\* edge function, the hour ending at p.timestamp for the hour variant
PlacedBy(p) ==
    SelectSeq(response.trace.ledger, LAMBDA bet :
        IF response.variant = "hour"
        THEN bet.placed_at <= p.timestamp
        ELSE bet.placed_at < p.timestamp + 60)

\* the sum of the percentages of DataPoint p
PercentageSum(p) == RSumValues(p.percentages)

\* two numbers that differ by rounding at most: by no more than 0.01
Near(a, b) == RAbs(RSub(a, b)) <= Rat(1, 100)

\* C1: in every DataPoint of a history getEventAnalytics returns (minute
\* variant, and hour variant after smoothing), a totalPool above 0 comes with
\* percentages that sum to within 0.1 of 100.
C1_PercentageSum ==
    OfService =>
        \A i \in DOMAIN History :
            History[i].totalPool > 0 =>
                RAbs(RSub(PercentageSum(History[i]), R(100))) <= Rat(1, 10)

\* C2: in every DataPoint of the minute variant and of the edge function, the
\* percentage of an option is its share of all the amounts placed up to and
\* including that bucket; and the last DataPoint of the hour variant holds each
\* option's share of the whole ledger.
C2_CumulativeShare ==
    /\ response.variant \in {"minute", "edge"} =>
          \A i \in DOMAIN History : \A o \in DOMAIN History[i].percentages :
              totalAmount(PlacedBy(History[i])) > 0 =>
                  Near(History[i].percentages[o],
                       RShare(R(optionTotal(PlacedBy(History[i]), o)),
                              R(totalAmount(PlacedBy(History[i])))))
    /\ (response.variant = "hour" /\ ~response.trace.ledgerFailed) =>
          \A o \in EventOptions :
              (History # <<>> /\ totalAmount(response.trace.ledger) > 0) =>
                  Near(History[Len(History)].percentages[o],
                       RShare(R(optionTotal(response.trace.ledger, o)),
                              R(totalAmount(response.trace.ledger))))

\* C3: in every DataPoint of a history getEventAnalytics returns from a ledger
\* it could read, if the amounts placed up to and including the bucket sum to
\* zero then every option of the event has the percentage 100 / optionCount and
\* totalPool is 0.
C3_EqualShareOfEmptyPool ==
    (OfService /\ ~response.trace.ledgerFailed) =>
        \A i \in DOMAIN History :
            totalAmount(PlacedBy(History[i])) = 0 =>
                /\ History[i].totalPool = R(0)
                /\ \A o \in EventOptions :
                      /\ o \in DOMAIN History[i].percentages
                      /\ Near(History[i].percentages[o],
                              Rat(100, Cardinality(EventOptions)))

\* C4: every DataPoint handed back, by either variant of getEventAnalytics or by
\* the edge function, has a percentage for every option of the event.
C4_NoMissingOption ==
    \A i \in DOMAIN History : EventOptions \subseteq DOMAIN History[i].percentages

\* C5: in every history handed back, by either variant of getEventAnalytics or
\* by the edge function, each timestamp is strictly less than the next.
C5_MonotonicTimestamps ==
    \A i \in DOMAIN History :
        i < Len(History) => History[i].timestamp < History[i + 1].timestamp

\* C5 happens: the minute variant returned a history of two DataPoints from a
\* ledger whose later bet was inserted first.
C5_Witness ==
    /\ response.variant = "minute"
    /\ Len(History) = 2
    /\ Len(bets) = 2
    /\ bets[1].placed_at > bets[2].placed_at
    /\ response.trace.ledger = orderByPlacedAt(bets)

\* C6: in every non-empty history getEventAnalytics returns, the first DataPoint
\* carries a momentum of 0 for every option of the event.
C6_FirstMomentumZero ==
    (OfService /\ History # <<>>) =>
        /\ "momentum" \in DOMAIN History[1]
        /\ \A o \in EventOptions :
              /\ o \in DOMAIN History[1].momentum
              /\ History[1].momentum[o] = R(0)

\* C7: getEventAnalytics called with an id that matches no event throws; it
\* returns no analytics object, reads table events once, and what it throws is
\* the no-row error of that read unless a query itself failed.
C7_NotFound ==
    (OfService /\ response.eventId # TheEvent /\ response.outcome # "none") =>
        /\ response.outcome = "thrown"
        /\ response.body = <<>>
        /\ response.trace.eventReads <= 1
        /\ FetchError \notin Range(response.error) =>
              /\ NoRowsError \in Range(response.error)
              /\ response.trace.eventReads = 1

\* C7 happens: the minute variant, its ledger read, has found no event of the
\* unknown id and has thrown.
C7_Witness ==
    /\ response.variant = "minute"
    /\ response.eventId # TheEvent
    /\ response.outcome = "thrown"
    /\ response.error = <<"Event not found: ", NoRowsError>>
    /\ response.trace.eventReads = 1

\* C8: getEventAnalytics called for the existing event while it has no option
\* throws and returns no analytics object.
C8_EmptyOptions ==
    (OfService /\ response.eventId = TheEvent /\ response.outcome # "none"
        /\ bet_options = <<>>) =>
        response.outcome = "thrown"

\* C9: when its read of the ledger fails, getEventAnalytics throws; it returns
\* no history.
C9_LedgerFailureSurfaced ==
    (OfService /\ response.trace.ledgerFailed) =>
        /\ response.outcome = "thrown"
        /\ History = <<>>

\* C10: the history and the insights the hour variant returns are those of
\* every call that reads the same rows at the same clock, whatever the state of
\* the random generator, also when the read of the ledger failed.
C10_Deterministic ==
    (response.variant = "hour" /\ response.outcome = "returned") =>
        \A seed \in Seeds :
            LET again ==
                    generateRealHistoricalData(
                        response.trace.ledger, response.trace.ledgerFailed,
                        response.trace.optionsRead, response.trace.now, seed)
            IN  /\ response.body.historicalData = again
                /\ response.body.insights =
                      generateEventInsights(again, response.trace.optionsRead)

\* the ledger the invocation read is empty, or its amounts sum to zero, or the
\* history handed back has a single DataPoint
Degenerate ==
    \/ Len(response.trace.ledger) = 0
    \/ totalAmount(response.trace.ledger) = 0
    \/ Len(History) = 1

\* the insights handed back, without a key when none were
Insights ==
    IF response.outcome = "returned" /\ "insights" \in DOMAIN response.body
    THEN response.body.insights
    ELSE NoKeys

\* C11: for the existing event with at least one option and a ledger that
\* could be read, an empty ledger, a zero pool or a single DataPoint makes
\* neither variant of getEventAnalytics nor the edge function fail (a throw is
\* that of a failed query), no percentage handed back is NaN, and the insights
\* carry volatilityScore 0, no lastMajorShift and, where the variant reports
\* them, trend Stable and volatility Low.
C11_DegeneraciesFinite ==
    (/\ response.outcome # "none"
     /\ response.eventId = TheEvent
     /\ bet_options # <<>>
     /\ ~response.trace.ledgerFailed
     /\ Degenerate) =>
        /\ response.outcome = "thrown" => FetchError \in Range(response.error)
        /\ \A i \in DOMAIN History : \A o \in DOMAIN History[i].percentages :
              ~RIsNaN(History[i].percentages[o])
        /\ "volatilityScore" \in DOMAIN Insights =>
              /\ Near(Insights.volatilityScore, R(0))
              /\ Insights.lastMajorShift = <<>>
        /\ "trend" \in DOMAIN Insights =>
              /\ Insights.trend = "Stable"
              /\ Insights.volatility = "Low"

\* the rows of the ledger the invocation read that were placed in the hour
\* ending at t: later than t - 1 h and no later than t
PlacedInHour(t) ==
    SelectSeq(response.trace.ledger, LAMBDA bet :
        bet.placed_at > t - 60 * 60 /\ bet.placed_at <= t)

\* C12: the history the hour variant returns has 24 DataPoints, DataPoint j
\* stamped with the end of hour slot j of the 24 hours before the clock it
\* read; when the ledger could be read, a slot without bets has bettingVelocity
\* 0, and an empty ledger gives every option 100 / optionCount in all of them.
C12_TwentyFourHourSlots ==
    (response.variant = "hour" /\ response.outcome = "returned") =>
        /\ Len(History) = 24
        /\ \A j \in DOMAIN History :
              History[j].timestamp = response.trace.now - (24 - j) * (60 * 60)
        /\ ~response.trace.ledgerFailed =>
              \A j \in DOMAIN History :
                  /\ PlacedInHour(History[j].timestamp) = <<>> =>
                        History[j].bettingVelocity = 0
                  /\ response.trace.ledger = <<>> =>
                        \A o \in EventOptions :
                            Near(History[j].percentages[o],
                                 Rat(100, Cardinality(EventOptions)))

\* C12 happens: the hour variant returned the history of a ledger it could
\* read, with a bet in the hour before the last and none in the last hour.
C12_Witness ==
    /\ response.variant = "hour"
    /\ response.outcome = "returned"
    /\ ~response.trace.ledgerFailed
    /\ Len(History) = 24
    /\ PlacedInHour(History[23].timestamp) # <<>>
    /\ History[23].bettingVelocity > 0
    /\ PlacedInHour(History[24].timestamp) = <<>>
    /\ History[24].bettingVelocity = 0

\* C13: in every history handed back from a ledger that could be read, by
\* either variant of getEventAnalytics or by the edge function, the totalPool
\* of every DataPoint before the last is the sum of the amounts placed up to
\* and including its bucket.
C13_EarlierPoolsCumulative ==
    ~response.trace.ledgerFailed =>
        \A i \in DOMAIN History :
            i < Len(History) =>
                History[i].totalPool = R(totalAmount(PlacedBy(History[i])))

\* the hourly DataPoints of the ledger the hour variant read, before smoothing
RawHistory ==
    realDataPoints(response.trace.ledger, response.trace.optionsRead,
                   response.trace.now)

\* the end of the latest hour in which the ledger moved some option's share by
\* more than 10 against the hour before; <<>> when no hour did
RawMajorShift ==
    lastMajorShift(response.trace.optionsRead, RawHistory, Len(RawHistory))

\* C14: when the ledger the hour variant read moves some option's share by more
\* than 10 between two consecutive hours, the lastMajorShift it reports is the
\* end of the later hour of the most recent such pair.
C14_LastMajorShiftOfRawJump ==
    (/\ response.variant = "hour"
     /\ response.outcome = "returned"
     /\ ~response.trace.ledgerFailed
     /\ response.trace.ledger # <<>>
     /\ RawMajorShift # <<>>) =>
        Insights.lastMajorShift = RawMajorShift

\* C18: in the history the hour variant returns from a ledger it could read,
\* the momentum of every option in every DataPoint after the first is that
\* option's percentage in the DataPoint minus its percentage in the DataPoint
\* before, both as returned.
C18_MomentumOfReturnedSeries ==
    (response.variant = "hour" /\ ~response.trace.ledgerFailed) =>
        \A i \in DOMAIN History :
            i > 1 =>
                \A o \in EventOptions :
                    Near(History[i].momentum[o],
                         RSub(History[i].percentages[o],
                              History[i - 1].percentages[o]))

\* the rows of the ledger the invocation read that were placed in the bucket of
\* DataPoint p: its minute for the minute variant, the hour ending at
\* p.timestamp for the hour variant
PlacedIn(p) ==
    IF response.variant = "hour"
    THEN PlacedInHour(p.timestamp)
    ELSE SelectSeq(response.trace.ledger, LAMBDA bet :
             timestampOfKey(timeKey(bet.placed_at)) = p.timestamp)

\* the betting velocity DataPoint p carries, under either name of the field
VelocityOf(p) ==
    IF "bettingVelocity" \in DOMAIN p THEN p.bettingVelocity ELSE p.velocity

\* C20: in every history getEventAnalytics returns from a ledger it could
\* read, the betting velocity of a DataPoint is the number of bets placed in
\* that DataPoint's own bucket.
C20_VelocityOfOwnBucket ==
    (OfService /\ ~response.trace.ledgerFailed) =>
        \A i \in DOMAIN History :
            VelocityOf(History[i]) = Len(PlacedIn(History[i]))

----------------------------------------------------------------------------
(* Properties of smoothDataPoints *)

\* smoothDataPoints has returned
Smoothed == response.variant = "smooth" /\ response.outcome = "returned"

\* C15: smoothDataPoints returns a series of the length of its argument; an
\* argument of fewer than 3 DataPoints is returned as it is, and of a longer
\* one the first and the last DataPoint are returned as they are, in every
\* field.
C15_SmoothKeepsEnds ==
    Smoothed =>
        LET in == loc.historicalData
            out == History
        IN  /\ Len(out) = Len(in)
            /\ Len(in) < 3 => out = in
            /\ Len(in) >= 3 =>
                  /\ out[1] = in[1]
                  /\ out[Len(in)] = in[Len(in)]

\* C15 happens: smoothDataPoints returned a series of 3 DataPoints whose middle
\* one it changed, the first differing from the second.
C15_Witness ==
    /\ Smoothed
    /\ Len(loc.historicalData) = 3
    /\ loc.historicalData[1].percentages # loc.historicalData[2].percentages
    /\ History[2] # loc.historicalData[2]
    /\ History[1] = loc.historicalData[1]

\* (2 * prev + 6 * current + 2 * next) / 10, to the nearest unit
Weighted262(prevVal, currentVal, nextVal) ==
    roundDiv(2 * prevVal + 6 * currentVal + 2 * nextVal, 10)

----------------------------------------------------------------------------
(* Properties of the subscription handlers *)

\* the callback of a subscription has been called
Delivered == response.variant \in LiveVariants /\ response.outcome = "returned"

\* getRealTimeBettingStats on the rows the handler read at the clock it read
StatsOfRowsRead ==
    IF response.variant = "live1"
    THEN live1Stats(response.trace.eventRead, response.trace.optionsRead,
                    response.trace.ledger, response.trace.now)
    ELSE live2Stats(response.trace.optionsRead, response.trace.eventRead,
                    response.trace.ledger, response.trace.now)

\* C16: what a subscription handler calls the subscriber with is the
\* statistics of the rows it read from the store after the notification, for
\* a notification of any of its tables and whatever the payload says: two
\* notifications that find the same rows deliver the same data.
C16_PayloadNeverDelivered ==
    Delivered =>
        /\ response.trace.table \in liveTables(response.variant)
        /\ response.body = StatsOfRowsRead
        /\ response.trace.eventReads = 1

\* C16 happens: a handler started by a notification whose payload names a
\* total of 999 has called the subscriber with the total of the events row.
C16_Witness ==
    /\ Delivered
    /\ response.trace.payload.new.total_pool = 999
    /\ response.trace.eventRead = event
    /\ response.body.totalPool = event.total_pool
    /\ response.body.totalPool # 999

\* C17: when the subscriber holds an earlier snapshot and is handed a new one,
\* the new snapshot carries for every option a momentum equal to the option's
\* percentage in it minus the option's percentage in the earlier snapshot.
C17_MomentumAgainstPrevious ==
    [][(/\ Delivered
        /\ response' # response
        /\ response'.outcome = "returned")
       => /\ "momentum" \in DOMAIN response'.body
          /\ \A o \in DOMAIN response'.body.percentages :
                o \in DOMAIN response.body.percentages =>
                    Near(response'.body.momentum[o],
                         RSub(response'.body.percentages[o],
                              response.body.percentages[o]))]_vars

----------------------------------------------------------------------------
(* Properties of the insights *)

\* the option calculateEnhancedInsights takes for the leading one, of the
\* options the invocation read
LeadingId ==
    response.trace.optionsRead[leadingIndex(response.trace.optionsRead)].id

\* Rising for a change above 2, Falling for one below -2, Stable otherwise
TrendOf(change) ==
    IF RGt(change, R(2)) THEN "Rising"
    ELSE IF RLt(change, R(-2)) THEN "Falling"
    ELSE "Stable"

\* the minute variant has returned insights on at least one option
MinuteInsights ==
    /\ response.variant = "minute"
    /\ response.outcome = "returned"
    /\ response.trace.optionsRead # <<>>

\* C21: the trend the minute variant reports is that of the change of the
\* leading option's percentage from the third last DataPoint to the last, or
\* from the first to the second when the history has exactly 2; a history of
\* fewer than 2 DataPoints gives Stable.
C21_TrendOfLastPoints ==
    MinuteInsights =>
        LET n == Len(History)
            from == IF n >= 3 THEN n - 2 ELSE 1
        IN  Insights.trend =
                IF n < 2 THEN "Stable"
                ELSE TrendOf(RSub(percentageOr0(History[n], LeadingId),
                                  percentageOr0(History[from], LeadingId)))

\* getEventAnalytics has returned insights on at least one option, in either
\* variant
ServiceInsights ==
    /\ OfService
    /\ response.outcome = "returned"
    /\ response.trace.optionsRead # <<>>

\* the mean absolute change of the leading option's percentage between
\* consecutive DataPoints of the history handed back
AvgDelta == avgChange(History, LeadingId)

\* C22: the volatilityScore either variant of getEventAnalytics reports is
\* min(100, avgDelta * 10), avgDelta being the mean absolute change of the
\* leading option's percentage between consecutive DataPoints, and lies in
\* 0..100; the class, where reported, is High for avgDelta > 10, Medium for
\* avgDelta > 5, Low otherwise; a history of fewer than 2 DataPoints gives
\* Low and 0.
C22_VolatilityOfLeadingOption ==
    ServiceInsights =>
        IF Len(History) < 2
        THEN /\ Insights.volatilityScore = R(0)
             /\ "volatility" \in DOMAIN Insights => Insights.volatility = "Low"
        ELSE /\ Near(Insights.volatilityScore, RMin(R(100), RMul(AvgDelta, R(10))))
             /\ R(0) <= Insights.volatilityScore
             /\ Insights.volatilityScore <= R(100)
             /\ "volatility" \in DOMAIN Insights =>
                   Insights.volatility =
                       IF RGt(AvgDelta, R(10)) THEN "High"
                       ELSE IF RGt(AvgDelta, R(5)) THEN "Medium"
                       ELSE "Low"

\* the end of the latest pair of consecutive DataPoints of the history handed
\* back, from DataPoint i down, between which some option's percentage
\* changed by more than threshold; <<>> when there is no such pair
RECURSIVE AnyOptionShift(_, _)
AnyOptionShift(threshold, i) ==
    IF i < 2 THEN <<>>
    ELSE IF \E o \in DOMAIN History[i].percentages \cup DOMAIN History[i - 1].percentages :
                RGt(RAbs(RSub(percentageOr0(History[i], o),
                              percentageOr0(History[i - 1], o))), R(threshold))
         THEN <<History[i].timestamp>>
         ELSE AnyOptionShift(threshold, i - 1)

\* C23: the lastMajorShift getEventAnalytics reports is the timestamp of the
\* later DataPoint of the most recent pair of consecutive DataPoints between
\* which the percentage of any option changed by more than 5 (minute variant)
\* or 10 (hour variant), and none is reported exactly when there is no such
\* pair.
C23_ShiftOfAnyOption ==
    ServiceInsights =>
        Insights.lastMajorShift =
            AnyOptionShift(IF response.variant = "minute" THEN 5 ELSE 10,
                           Len(History))

\* the momentum of option i of the options read, in the last DataPoint of the
\* history handed back; 0 when the DataPoint carries none
LastMomentum(i) ==
    momentumOr0(History[Len(History)], response.trace.optionsRead[i].id)

\* the first of the options read whose momentum in the last DataPoint no
\* other option's exceeds
FirstOfHighestMomentum ==
    CHOOSE i \in DOMAIN response.trace.optionsRead :
        /\ \A j \in DOMAIN response.trace.optionsRead :
              LastMomentum(j) <= LastMomentum(i)
        /\ \A j \in 1..(i - 1) : LastMomentum(j) < LastMomentum(i)

\* C24: the trendingOption getEventAnalytics reports is the option with the
\* highest momentum in the last DataPoint of the history, the first of them in
\* the option list when several have it.
C24_TrendingByMomentum ==
    (ServiceInsights /\ History # <<>>) =>
        Insights.trendingOption =
            response.trace.optionsRead[FirstOfHighestMomentum].label

\* the number of rows of the ledger the invocation read that were placed in
\* hour h of the day
PlacedAtHour(h) ==
    Len(SelectSeq(response.trace.ledger, LAMBDA bet : getHours(bet.placed_at) = h))

\* the lowest of the hours of the day in which most rows of the ledger were
\* placed
BusiestHour ==
    CHOOSE h \in 0..23 :
        /\ \A g \in 0..23 : PlacedAtHour(g) <= PlacedAtHour(h)
        /\ \A g \in 0..(h - 1) : PlacedAtHour(g) < PlacedAtHour(h)

\* C25: the peakBettingHour getEventAnalytics reports from a ledger it could
\* read is the hour of the day (0..23) in which most bets of the whole ledger
\* were placed, every bet counted in the hour of its own placed_at, and the
\* lowest such hour when several have the most.
C25_PeakHourOfLedger ==
    (ServiceInsights /\ ~response.trace.ledgerFailed) =>
        /\ Insights.peakBettingHour \in 0..23
        /\ Insights.peakBettingHour = BusiestHour

----------------------------------------------------------------------------
(* Properties of the minute variant's passes over the buckets *)

\* per option bet on, the sum of the amounts of the rows of the ledger placed
\* up to and including the bucket of DataPoint p
TotalsBy(p) ==
    [o \in {PlacedBy(p)[k].option_id : k \in DOMAIN PlacedBy(p)} |->
        optionTotal(PlacedBy(p), o)]

\* C26: in the history the minute variant returns, the totalBets of every
\* DataPoint are the per-option totals as of its own bucket: the passes over
\* later buckets have not changed them.
C26_TotalsAsOfOwnBucket ==
    (response.variant = "minute" /\ response.outcome = "returned") =>
        \A i \in DOMAIN History : History[i].totalBets = TotalsBy(History[i])

\* every pass over a bucket found the row of the event: the store counts a
\* participant for every bet, and a pass that finds no row stores 0
EveryPassReadEvent ==
    \A i \in DOMAIN History : History[i].participantCount > 0

\* C27: the DataPoints of one history of the minute variant, every pass of
\* which found the row of the event, carry the total_pool and the
\* participant_count of one and the same state of the store, one the store
\* was in between the call and the return, also when a bet is inserted while
\* the invocation runs.
C27_TotalsOfOneStoreState ==
    (/\ response.variant = "minute"
     /\ response.outcome = "returned"
     /\ EveryPassReadEvent) =>
        \E n \in response.trace.epochStart..response.trace.epochEnd :
            \A i \in DOMAIN History :
                /\ History[i].participantCount = n
                /\ History[i].totalPool = R(totalAmount(SubSeq(bets, 1, n)))

----------------------------------------------------------------------------
(* Properties of the components' real-time effects *)

\* C28: once the cleanup of the real-time effect of a component that appends
\* statistics has run, no step changes its dataPoints or its totalPool, also
\* when a poll or the handler of a notification was awaiting its statistics
\* at the cleanup.
C28_NoUpdateAfterCleanup ==
    [][(pc = "cleaned" /\ loc.view \in PointsViews)
       => /\ response'.dataPoints = response.dataPoints
          /\ response'.totalPool = response.totalPool]_vars

\* the tasks whose reload has started and has not finished
ReloadsInFlight ==
    {i \in DOMAIN loc.tasks : loc.tasks[i].stage \in {"reload", "loaded"}}

\* the reload started last
LatestReload ==
    CHOOSE i \in DOMAIN loc.tasks : loc.tasks[i].seq = reloadsStarted(loc.tasks)

\* C29: in a component that reloads on every notification, once no reload is
\* in flight the displayed history is the result of the reload started last
\* (when that one succeeded), and the loading flag is up while a reload is in
\* flight.
C29_LatestReloadShown ==
    loc.view \in ReloadViews =>
        /\ (/\ ReloadsInFlight = {}
            /\ reloadsStarted(loc.tasks) > 0
            /\ loc.tasks[LatestReload].stage = "done")
              => response.dataPoints = loc.tasks[LatestReload].result
        /\ ReloadsInFlight # {} => response.loading

\* task i fails in this step, in the handler of subscribeToEventUpdates or in
\* the poll (awaiting the statistics), or in the reload of MobileLiveAnalytics
FailsHere(i) ==
    /\ loc'.tasks[i].stage = "caught"
    /\ \/ loc.tasks[i].stage = "stats"
       \/ loc.tasks[i].stage = "reload" /\ loc.view = "mobile_reload"

\* task i, started after a failure was logged, gets its statistics in this step
SucceedsLaterHere(i) ==
    /\ loc.tasks[i].after > 0
    /\ loc.tasks[i].stage = "stats"
    /\ loc'.tasks[i].stage \in {"done", "reload"}

=============================================================================
